---- MODULE Spec2Model ----
(***************************************************************************)
(* Cyberchess Arena (src/cyberchess.py): the move negotiation of           *)
(* get_gemini_move, the game loop of play_game, save_game_data and the     *)
(* top-level run.                                                          *)
(*                                                                         *)
(* Text is a sequence of one-character strings.  The chess library         *)
(* (python-chess) is an external collaborator: Move.from_uci, Move.uci and *)
(* the membership test of board.legal_moves are modelled by what they do   *)
(* on text and moves; a position is an entry of a small table that gives   *)
(* the side to move, the legal moves, the castling moves and whether the   *)
(* game is over, and board.push leads to any position of the other side.   *)
(*                                                                         *)
(* The source file holds fragments of each function twice.  The model     *)
(* follows the statements as they stand and leaves out only the cut-off    *)
(* fragments that no function can contain (the unfinished loop of lines    *)
(* 104-117, the loop header of line 194, the docstring rest of lines       *)
(* 264-266): get_gemini_move is lines 81-102 and 118-147, play_game lines  *)
(* 174-192 and 196-233, save_game_data lines 262 and 267-276, the run      *)
(* lines 293-294.  A statement that stands twice runs twice: the board and *)
(* the engine are created at lines 174-176 and again at 181-182, and the   *)
(* except handler appends its format line at line 139 and at line 142.     *)
(***************************************************************************)
EXTENDS Integers, Sequences, FiniteSets, TLC

VARIABLES
    pc,          \* control position of the single thread of the run
    board,       \* chess.Board of play_game: [pos, move_stack]
    engine,      \* the Stockfish process the name engine refers to: "none", "running", "quit"
    orphans,     \* running Stockfish processes that no name refers to any more
    game_moves,  \* game_moves of play_game
    result,      \* result.move of the last engine.play
    legal_moves, \* legal_moves of get_gemini_move (UCI texts)
    prompt,      \* prompt of get_gemini_move (initial part, then feedback)
    attempt,     \* rounds of the retry loop started in this call
    responses,   \* what model.generate_content gave in each round of this call
    move,        \* the move get_gemini_move returned
    path,        \* how it returned: "none", "validated", "fallback"
    calls,       \* the move sources queried so far, in order
    file,        \* training_data.pgn: the chunks written, in order
    finished_board, \* what play_game returned to the run, <<>> before it returns
    fault        \* the exception that left the run, or "none"

vars == <<pc, board, engine, orphans, game_moves, result, legal_moves, prompt, attempt,
          responses, move, path, calls, file, finished_board, fault>>

----------------------------------------------------------------------------
(* Bounds of the model and constants of the program *)

\* plies after which the position table only offers finished positions
MaxPlies == 4

\* get_gemini_move(board, retries=3)
retries == 3

----------------------------------------------------------------------------
(* Characters and text *)

NL == "\n"
TAB == "\t"
SP == " "
\* the backtick character (the lexer of TLA+ does not take it in a string)
BT == "BACKTICK"

CR == "\r"
FF == "\f"
VT == "U+000B"
\* the other characters str.isspace() takes: the separators U+001C..U+001F,
\* NEL, the no-break space and the spaces of Unicode
OtherSpaces == {"U+001C", "U+001D", "U+001E", "U+001F", "U+0085", "U+00A0",
                "U+1680", "U+2000", "U+2001", "U+2002", "U+2003", "U+2004",
                "U+2005", "U+2006", "U+2007", "U+2008", "U+2009", "U+200A",
                "U+2028", "U+2029", "U+202F", "U+205F", "U+3000"}

\* the characters str.strip() removes at both ends
Whitespace == {SP, NL, TAB, CR, FF, VT} \cup OtherSpaces

FileNames == <<"a", "b", "c", "d", "e", "f", "g", "h">>
RankNames == <<"1", "2", "3", "4", "5", "6", "7", "8">>

\* chess.PIECE_SYMBOLS without its leading None: index 1..6
PIECE_SYMBOLS == <<"p", "n", "b", "r", "q", "k">>

\* list.index: the first position of x in s, 0 when absent (ValueError)
IndexOf(s, x) ==
    IF \E i \in 1..Len(s) : s[i] = x
    THEN CHOOSE i \in 1..Len(s) : s[i] = x /\ \A j \in 1..(i-1) : s[j] # x
    ELSE 0

UpperCase == <<"A", "B", "C", "D", "E", "F", "G", "H", "I", "J", "K", "L", "M",
               "N", "O", "P", "Q", "R", "S", "T", "U", "V", "W", "X", "Y", "Z">>
LowerCase == <<"a", "b", "c", "d", "e", "f", "g", "h", "i", "j", "k", "l", "m",
               "n", "o", "p", "q", "r", "s", "t", "u", "v", "w", "x", "y", "z">>
\* KELVIN SIGN, the one character outside A-Z whose lower case is a piece symbol
KELVIN == "U+212A"

\* str.lower on one character of the texts of the model
Lower(c) ==
    IF c = KELVIN THEN "k"
    ELSE IF IndexOf(UpperCase, c) # 0 THEN LowerCase[IndexOf(UpperCase, c)]
    ELSE c

\* str.upper on one character of the texts of the model
Upper(c) ==
    IF IndexOf(LowerCase, c) # 0 THEN UpperCase[IndexOf(LowerCase, c)]
    ELSE c

RECURSIVE LStrip(_)
LStrip(s) ==
    IF s # <<>> /\ Head(s) \in Whitespace THEN LStrip(Tail(s)) ELSE s

RECURSIVE RStrip(_)
RStrip(s) ==
    IF s # <<>> /\ s[Len(s)] \in Whitespace
    THEN RStrip(SubSeq(s, 1, Len(s) - 1))
    ELSE s

\* str.strip()
Strip(s) == RStrip(LStrip(s))

\* str.replace(c, ""), for a one-character c
RECURSIVE Remove(_, _)
Remove(s, c) ==
    IF s = <<>> THEN <<>>
    ELSE IF Head(s) = c THEN Remove(Tail(s), c)
    ELSE <<Head(s)>> \o Remove(Tail(s), c)

\* response.text.strip().replace("\n", "").replace(" ", "").replace(BT, "")
Sanitize(text) == Remove(Remove(Remove(Strip(text), NL), SP), BT)

----------------------------------------------------------------------------
(* chess.Move *)

NONE == 0

Move(f, t, p, d) == [from_square |-> f, to_square |-> t, promotion |-> p, drop |-> d]

NullMove == Move(0, 0, NONE, NONE)

\* SQUARE_NAMES.index(name) + 1, and 0 when name is no square (ValueError)
SquareIndex(name) ==
    IF Len(name) = 2 /\ IndexOf(FileNames, name[1]) # 0 /\ IndexOf(RankNames, name[2]) # 0
    THEN (IndexOf(RankNames, name[2]) - 1) * 8 + IndexOf(FileNames, name[1])
    ELSE 0

SquareName(sq) == <<FileNames[((sq - 1) % 8) + 1], RankNames[((sq - 1) \div 8) + 1]>>

\* chess.Move.from_uci: [ok |-> TRUE, move |-> m], or ok = FALSE for InvalidMoveError
Parsed(m) == [ok |-> TRUE, move |-> m]
InvalidMoveError == [ok |-> FALSE, move |-> NullMove]

from_uci(uci) ==
    IF uci = <<"0", "0", "0", "0">> THEN Parsed(NullMove)
    ELSE IF Len(uci) = 4 /\ uci[2] = "@" THEN
        LET drop == IndexOf(PIECE_SYMBOLS, Lower(uci[1]))
            square == SquareIndex(SubSeq(uci, 3, 4))
        IN  IF drop = 0 \/ square = 0 THEN InvalidMoveError
            ELSE Parsed(Move(square, square, NONE, drop))
    ELSE IF Len(uci) \in 4..5 THEN
        LET from_square == SquareIndex(SubSeq(uci, 1, 2))
            to_square == SquareIndex(SubSeq(uci, 3, 4))
            promotion == IF Len(uci) = 5 THEN IndexOf(PIECE_SYMBOLS, uci[5]) ELSE NONE
        IN  IF from_square = 0 \/ to_square = 0 \/ (Len(uci) = 5 /\ promotion = 0)
            THEN InvalidMoveError
            ELSE IF from_square = to_square THEN InvalidMoveError
            ELSE Parsed(Move(from_square, to_square, promotion, NONE))
    ELSE InvalidMoveError

\* chess.Move.uci
Uci(m) ==
    IF m.drop # NONE
    THEN <<Upper(PIECE_SYMBOLS[m.drop]), "@">> \o SquareName(m.to_square)
    ELSE IF m.promotion # NONE
    THEN SquareName(m.from_square) \o SquareName(m.to_square) \o <<PIECE_SYMBOLS[m.promotion]>>
    ELSE IF m = NullMove THEN <<"0", "0", "0", "0">>
    ELSE SquareName(m.from_square) \o SquareName(m.to_square)

\* the moves the position table and the proposal texts are written with
e2e4 == Move(SquareIndex(<<"e", "2">>), SquareIndex(<<"e", "4">>), NONE, NONE)
g1f3 == Move(SquareIndex(<<"g", "1">>), SquareIndex(<<"f", "3">>), NONE, NONE)
d2d4 == Move(SquareIndex(<<"d", "2">>), SquareIndex(<<"d", "4">>), NONE, NONE)
e1g1 == Move(SquareIndex(<<"e", "1">>), SquareIndex(<<"g", "1">>), NONE, NONE)
e7e5 == Move(SquareIndex(<<"e", "7">>), SquareIndex(<<"e", "5">>), NONE, NONE)
g8f6 == Move(SquareIndex(<<"g", "8">>), SquareIndex(<<"f", "6">>), NONE, NONE)
e8g8 == Move(SquareIndex(<<"e", "8">>), SquareIndex(<<"g", "8">>), NONE, NONE)
e8h8 == Move(SquareIndex(<<"e", "8">>), SquareIndex(<<"h", "8">>), NONE, NONE)
e2e1q == Move(SquareIndex(<<"e", "2">>), SquareIndex(<<"e", "1">>), IndexOf(PIECE_SYMBOLS, "q"), NONE)

----------------------------------------------------------------------------
(* chess.Board: the position table stands for the rules of chess *)

WHITE == "white"
BLACK == "black"

E1 == SquareIndex(<<"e", "1">>)
E8 == SquareIndex(<<"e", "8">>)

Position(t, l, c, k, o) == [turn |-> t, legal |-> l, castling |-> c, king |-> k, over |-> o]

\* turn, legal moves, castling moves among them, the square of the king of
\* the side to move, and board.is_game_over()
Positions == <<
    Position(WHITE, {e2e4, g1f3}, {},     E1, FALSE),  \* the starting position
    Position(WHITE, {e1g1, d2d4}, {e1g1}, E1, FALSE),  \* White may castle
    Position(WHITE, {},           {},     E1, TRUE),   \* White is mated or stalemated
    Position(WHITE, {e2e4},       {},     E1, TRUE),   \* drawn by rule, White to move
    Position(BLACK, {e7e5, g8f6}, {},     E8, FALSE),  \* Black's first reply
    Position(BLACK, {e8g8, e7e5}, {e8g8}, E8, FALSE),  \* Black may castle
    Position(BLACK, {e2e1q, e7e5}, {},    E8, FALSE),  \* Black may promote
    Position(BLACK, {g8f6},       {},     E8, FALSE),  \* exactly one legal move
    Position(BLACK, {},           {},     E8, TRUE),   \* Black is mated or stalemated
    Position(BLACK, {e7e5},       {},     E8, TRUE) >> \* drawn by rule, Black to move

StartPos == 1

\* chess.Board()
NewBoard == [pos |-> StartPos, move_stack |-> <<>>]

Pos(b) == Positions[b.pos]

\* board.turn
Turn(b) == Pos(b).turn

\* board.is_game_over()
is_game_over(b) == Pos(b).over

\* list(board.legal_moves)
LegalMoves(b) == Pos(b).legal

\* Board._from_chess960: king-takes-rook castling becomes the king's two-square move
FromChess960(b, m) ==
    IF m.promotion = NONE /\ m.drop = NONE /\ m.from_square \in {E1, E8}
       /\ Pos(b).king = m.from_square
    THEN IF m.to_square = m.from_square + 3 THEN Move(m.from_square, m.from_square + 2, NONE, NONE)
         ELSE IF m.to_square = m.from_square - 4 THEN Move(m.from_square, m.from_square - 2, NONE, NONE)
         ELSE m
    ELSE m

\* move in board.legal_moves (Board.is_legal): no null move, no drop; the
\* move of a king is first taken through _from_chess960, so that castling is
\* accepted in both of its notations; the rest of the rules is the table
IsLegal(b, m) ==
    LET mv == IF Pos(b).king = m.from_square THEN FromChess960(b, m) ELSE m
    IN  /\ m # NullMove
        /\ m.drop = NONE
        /\ (mv \in Pos(b).castling \/ mv \in LegalMoves(b))

\* the positions board.push may lead to: the other side is to move, and the
\* game is over once MaxPlies moves were made
NextPositions(b) ==
    {p \in 1..Len(Positions) :
        /\ Positions[p].turn # Turn(b)
        /\ p # StartPos
        /\ (Len(b.move_stack) + 1 >= MaxPlies => Positions[p].over)}

\* board.push(m), leading to position p: the move stack takes the move in
\* the king's two-square form
Push(b, m, p) == [pos |-> p, move_stack |-> Append(b.move_stack, FromChess960(b, m))]

----------------------------------------------------------------------------
(* The Move Proposal Source: model.generate_content(prompt) and response.text *)

\* the raw texts a round may get
RawTexts == {
    <<"e", "7", "e", "5">>,
    <<BT, "E", "7", "E", "5", BT, NL>>,
    <<"z", "9", "z", "9">>,
    <<SP, BT, "e", "7", SP, "e", "5", BT, NL>>,
    <<"e", "7", TAB, "e", "5">>,
    <<"e", "7", "e", "5", CR, NL>>,
    <<"e", "2", "e", "4">>,
    <<"e", "8", "h", "8">>,
    <<"0", "0", "0", "0">>,
    <<"e", "2", "e", "1", "q">>,
    <<KELVIN, "@", "e", "4">>,
    <<>> }

TextOutcome(t) == [kind |-> "text", text |-> t]

\* generate_content or response.text raised an Exception
FaultOutcome == [kind |-> "fault", text |-> <<>>]

SourceOutcomes == {TextOutcome(t) : t \in RawTexts} \cup {FaultOutcome}

----------------------------------------------------------------------------
(* get_gemini_move *)

\* the parts of the prompt: the initial text, then the lines of the failed rounds
PromptPart(k, f, l, t) == [kind |-> k, fen |-> f, legal |-> l, token |-> t]

\* mutant of LegalUci: the moves of the side in any position are listed
LegalUci_AnyPosition(b) ==
    {Uci(m) : m \in UNION {Positions[p].legal :
                              p \in {q \in 1..Len(Positions) : Positions[q].turn = Turn(b)}}}

\* [move.uci() for move in board.legal_moves]
LegalUci(b) == {Uci(m) : m \in LegalMoves(b)}

\* board.fen(): the position and the move counters
Fen(b) == <<b.pos, Len(b.move_stack)>>

\* mutant of InitialPrompt: a feedback line of an earlier turn is carried along
InitialPrompt_Stale(b) ==
    IF Len(b.move_stack) > 1
    THEN <<PromptPart("initial", <<b.pos, Len(b.move_stack)>>, {Uci(m) : m \in LegalMoves(b)}, <<>>),
           PromptPart("format", <<>>, {}, <<>>)>>
    ELSE <<PromptPart("initial", <<b.pos, Len(b.move_stack)>>, {Uci(m) : m \in LegalMoves(b)}, <<>>)>>

\* the f-string of the initial prompt
InitialPrompt(b) == <<PromptPart("initial", Fen(b), LegalUci(b), <<>>)>>

\* "ERROR: {move_str} is not a legal move. Please choose strictly from the provided list."
IllegalFeedback(move_str) == PromptPart("illegal", <<>>, {}, move_str)

\* "ERROR: Invalid format. Please reply ONLY with the move string (e.g., e7e5)."
FormatFeedback == PromptPart("format", <<>>, {}, <<>>)

\* move_str of a round
MoveStr(out) == Sanitize(out.text)

\* mutant of RoundResult: the text is looked up in the list shown in the
\* prompt instead of asking the board
RoundResult_ByList(b, out) ==
    IF out.kind = "fault" THEN "fault"
    ELSE IF ~from_uci(MoveStr(out)).ok THEN "unparseable"
    ELSE IF MoveStr(out) \in LegalUci(b) THEN "legal"
    ELSE "illegal"

\* what one round of the try block comes to
RoundResult(b, out) ==
    IF out.kind = "fault" THEN "fault"
    ELSE IF ~from_uci(MoveStr(out)).ok THEN "unparseable"
    ELSE IF IsLegal(b, from_uci(MoveStr(out)).move) THEN "legal"
    ELSE "illegal"

\* the exception a round raises inside the try block, or "none"
RoundException(b, out) ==
    IF RoundResult(b, out) = "fault" THEN "SourceError"
    ELSE IF RoundResult(b, out) = "unparseable" THEN "InvalidMoveError"
    ELSE "none"

\* mutant of ExceptException: except ValueError, which takes the parse error only
ExceptException_ValueError(exc) == exc = "InvalidMoveError"

\* except Exception as e: the classes the handler takes
ExceptException(exc) == exc \in {"SourceError", "InvalidMoveError"}

\* what a failed round adds to the prompt: the line of the else branch
\* (line 134), or the two prompt += of the except handler (lines 139 and 142)
Feedback(b, out) ==
    IF RoundResult(b, out) = "illegal" THEN <<IllegalFeedback(MoveStr(out))>>
    ELSE <<FormatFeedback, FormatFeedback>>

\* mutant of MoreRounds: one round too many
MoreRounds_OffByOne(n) == n <= retries

\* mutant of MoreRounds: the loop gives up one round early
MoreRounds_OneLess(n) == n < retries - 1

\* for attempt in range(retries): another round is due
MoreRounds(n) == n < retries

\* mutant of FallbackChoices: the choice is made among the moves of the side,
\* legal in this position or not
FallbackChoices_AnyPosition(b) ==
    UNION {Positions[p].legal : p \in {q \in 1..Len(Positions) : Positions[q].turn = Turn(b)}}

\* random.choice(list(board.legal_moves)): the moves it may give
FallbackChoices(b) == LegalMoves(b)

----------------------------------------------------------------------------
(* save_game_data: the text of a game and the dataset file *)

\* str(pgn_game): the headers and the moves of the board; d is the Date header
PgnRecord(b, d) == [event |-> "Cyberchess Dojo", white |-> "Stockfish Level 5",
                    black |-> "Gemini 1.5 Flash", date |-> d,
                    moves |-> b.move_stack, complete |-> TRUE]

\* a record of which only a part of its text reached the file
Partial(rec) == [rec EXCEPT !.complete = FALSE]

\* the "\n\n" after a record
Separator == "blank line"

\* datetime.datetime.now().strftime("%Y.%m.%d") of this run and of an earlier run
Today == "today"
Earlier == "earlier"

\* training_data.pgn before the run: absent or empty, or the record of an
\* earlier game followed by its blank line
EarlierBoard == [pos |-> 3, move_stack |-> <<e2e4, e7e5>>]
PriorFiles == {<<>>, <<PgnRecord(EarlierBoard, Earlier), Separator>>}

\* mutant of Written: the file is opened with "w"
Written_Truncate(old, text) == text

\* open("training_data.pgn", "a") and f.write(text): text goes after the old content
Written(old, text) == old \o text

\* mutant of SavedText: the blank line is left out
SavedText_NoSeparator(b) == <<PgnRecord(b, Today)>>

\* str(pgn_game) + "\n\n"
SavedText(b) == <<PgnRecord(b, Today), Separator>>

----------------------------------------------------------------------------
(* The run: __main__, play_game, get_gemini_move, save_game_data *)

NoMove == NullMove

Init ==
    /\ pc = "start"
    /\ board = NewBoard
    /\ engine = "none"
    /\ orphans = 0
    /\ game_moves = <<>>
    /\ result = NoMove
    /\ legal_moves = {}
    /\ prompt = <<>>
    /\ attempt = 0
    /\ responses = <<>>
    /\ move = NoMove
    /\ path = "none"
    /\ calls = <<>>
    /\ file \in PriorFiles
    /\ finished_board = <<>>
    /\ fault = "none"

\* an exception leaves play_game and the run: nothing after the raise is executed
Raise(what) ==
    /\ pc' = "raised"
    /\ fault' = what

\* lines 174-176: board = chess.Board(); engine = SimpleEngine.popen_uci(STOCKFISH_PATH)
PopenUci ==
    /\ pc = "start"
    /\ pc' = "start_again"
    /\ board' = NewBoard
    /\ engine' = "running"
    /\ UNCHANGED <<orphans, game_moves, result, legal_moves, prompt, attempt, responses,
                   move, path, calls, file, finished_board, fault>>

\* popen_uci of line 176 raises: no engine process is left
PopenUciFault ==
    /\ pc = "start"
    /\ Raise("popen_uci")
    /\ board' = NewBoard
    /\ UNCHANGED <<engine, orphans, game_moves, result, legal_moves, prompt, attempt,
                   responses, move, path, calls, file, finished_board>>

\* lines 181-182: the same two statements again; the name engine is bound to
\* a second process and the first one runs on with no name left for it
PopenUciAgain ==
    /\ pc = "start_again"
    /\ pc' = "configure"
    /\ board' = NewBoard
    /\ orphans' = orphans + 1
    /\ engine' = "running"
    /\ UNCHANGED <<game_moves, result, legal_moves, prompt, attempt, responses,
                   move, path, calls, file, finished_board, fault>>

\* popen_uci of line 182 raises: engine still names the first process
PopenUciAgainFault ==
    /\ pc = "start_again"
    /\ Raise("popen_uci")
    /\ board' = NewBoard
    /\ UNCHANGED <<engine, orphans, game_moves, result, legal_moves, prompt, attempt,
                   responses, move, path, calls, file, finished_board>>

\* engine.configure({"Skill Level": 5}); game_moves = []
Configure ==
    /\ pc = "configure"
    /\ pc' = "loop"
    /\ game_moves' = <<>>
    /\ UNCHANGED <<board, engine, orphans, result, legal_moves, prompt, attempt, responses,
                   move, path, calls, file, finished_board, fault>>

\* engine.configure raises
ConfigureFault ==
    /\ pc = "configure"
    /\ Raise("configure")
    /\ UNCHANGED <<board, engine, orphans, game_moves, result, legal_moves, prompt, attempt,
                   responses, move, path, calls, file, finished_board>>

\* mutant of EngineToMove: the sides are swapped
EngineToMove_Swapped(b) == Turn(b) = BLACK

\* if board.turn == chess.WHITE: the engine moves, else Gemini
EngineToMove(b) == Turn(b) = WHITE

\* mutant of LogAppend: the move is put in front of the log
LogAppend_Front(log, m) == <<m>> \o log

\* game_moves.append(m)
LogAppend(log, m) == Append(log, m)

\* mutant of LoopContinues: the game is only looked at before White's move
LoopContinues_WhiteOnly(b) == ~is_game_over(b) \/ Turn(b) = BLACK

\* mutant of LoopContinues: the loop never looks at the board
LoopContinues_Always(b) == TRUE

\* while not board.is_game_over()
LoopContinues(b) == ~is_game_over(b)

\* White's turn: result = engine.play(board, Limit(time=0.1)) returns a legal move
EnginePlay(m) ==
    /\ pc = "loop"
    /\ LoopContinues(board)
    /\ EngineToMove(board)
    /\ m \in LegalMoves(board)
    /\ result' = m
    /\ calls' = Append(calls, "engine")
    /\ pc' = "white_push"
    /\ UNCHANGED <<board, engine, orphans, game_moves, legal_moves, prompt, attempt,
                   responses, move, path, file, finished_board, fault>>

\* White's turn: engine.play raises (engine crash, timeout)
EnginePlayFault ==
    /\ pc = "loop"
    /\ LoopContinues(board)
    /\ EngineToMove(board)
    /\ calls' = Append(calls, "engine")
    /\ Raise("engine.play")
    /\ UNCHANGED <<board, engine, orphans, game_moves, result, legal_moves, prompt, attempt,
                   responses, move, path, file, finished_board>>

\* board.push(result.move); game_moves.append(result.move)
WhitePush(p) ==
    /\ pc = "white_push"
    /\ p \in NextPositions(board)
    /\ board' = Push(board, result, p)
    /\ game_moves' = LogAppend(game_moves, result)
    /\ result' = NoMove
    /\ pc' = "loop"
    /\ UNCHANGED <<engine, orphans, legal_moves, prompt, attempt, responses, move, path,
                   calls, file, finished_board, fault>>

\* Black's turn: get_gemini_move(board) is entered; legal_moves and prompt are built
GeminiCall ==
    /\ pc = "loop"
    /\ LoopContinues(board)
    /\ ~EngineToMove(board)
    /\ legal_moves' = LegalUci(board)
    /\ prompt' = InitialPrompt(board)
    /\ attempt' = 0
    /\ responses' = <<>>
    /\ calls' = Append(calls, "gemini")
    /\ pc' = "gemini"
    /\ UNCHANGED <<board, engine, orphans, game_moves, result, move, path, file, finished_board, fault>>

\* one round of the retry loop: the source answers out (a text or a fault)
GeminiRound(out) ==
    /\ pc = "gemini"
    /\ MoreRounds(attempt)
    /\ attempt' = attempt + 1
    /\ responses' = Append(responses, out)
    /\ IF RoundResult(board, out) = "legal"
       THEN /\ move' = from_uci(MoveStr(out)).move
            /\ path' = "validated"
            /\ pc' = "black_push"
            /\ UNCHANGED <<prompt, fault>>
       ELSE IF RoundException(board, out) = "none" \/ ExceptException(RoundException(board, out))
       THEN /\ prompt' = prompt \o Feedback(board, out)
            /\ UNCHANGED <<move, path, pc, fault>>
       ELSE /\ Raise(RoundException(board, out))
            /\ UNCHANGED <<move, path, prompt>>
    /\ UNCHANGED <<board, engine, orphans, game_moves, result, legal_moves, calls, file, finished_board>>

\* the loop is exhausted: return random.choice(list(board.legal_moves))
Fallback(m) ==
    /\ pc = "gemini"
    /\ ~MoreRounds(attempt)
    /\ m \in FallbackChoices(board)
    /\ move' = m
    /\ path' = "fallback"
    /\ pc' = "black_push"
    /\ UNCHANGED <<board, engine, orphans, game_moves, result, legal_moves, prompt, attempt,
                   responses, calls, file, finished_board, fault>>

\* board.push(move); game_moves.append(move); the locals of the call are gone
BlackPush(p) ==
    /\ pc = "black_push"
    /\ p \in NextPositions(board)
    /\ board' = Push(board, move, p)
    /\ game_moves' = LogAppend(game_moves, move)
    /\ move' = NoMove
    /\ path' = "none"
    /\ legal_moves' = {}
    /\ prompt' = <<>>
    /\ attempt' = 0
    /\ responses' = <<>>
    /\ pc' = "loop"
    /\ UNCHANGED <<engine, orphans, result, calls, file, finished_board, fault>>

\* return board: the board alone, game_moves stays behind
ReturnValue(b, log) == <<b>>

\* the loop ends: engine.quit(); return board
GameOver ==
    /\ pc = "loop"
    /\ ~LoopContinues(board)
    /\ engine' = "quit"
    /\ finished_board' = ReturnValue(board, game_moves)
    /\ pc' = "save"
    /\ UNCHANGED <<board, orphans, game_moves, result, legal_moves, prompt, attempt,
                   responses, move, path, calls, file, fault>>

\* the loop ends and engine.quit() raises: play_game returns nothing
QuitFault ==
    /\ pc = "loop"
    /\ ~LoopContinues(board)
    /\ Raise("engine.quit")
    /\ UNCHANGED <<board, engine, orphans, game_moves, result, legal_moves, prompt,
                   attempt, responses, move, path, calls, file, finished_board>>

\* save_game_data(finished_board): the record and "\n\n" are appended
SaveGameData ==
    /\ pc = "save"
    /\ file' = Written(file, SavedText(finished_board[1]))
    /\ pc' = "done"
    /\ UNCHANGED <<board, engine, orphans, game_moves, result, legal_moves, prompt, attempt,
                   responses, move, path, calls, finished_board, fault>>

\* open("training_data.pgn", "a") raises: nothing is written
SaveOpenFault ==
    /\ pc = "save"
    /\ Raise("open")
    /\ UNCHANGED <<board, engine, orphans, game_moves, result, legal_moves, prompt, attempt,
                   responses, move, path, calls, file, finished_board>>

\* what may have reached the file when an OSError leaves the with block
\* (f.write, the flush at close or close itself raises: disk full, size
\* limit, I/O error): nothing, a part of the record, the whole record with
\* its blank line missing or cut, or the whole text
WrittenBeforeFault(b) ==
    {<<>>,
     <<Partial(PgnRecord(b, Today))>>,
     <<PgnRecord(b, Today)>>,
     <<PgnRecord(b, Today), Separator>>}

\* the with block of lines 274-275 raises: what went out before stays in the file
SaveWriteFault(part) ==
    /\ pc = "save"
    /\ part \in WrittenBeforeFault(finished_board[1])
    /\ file' = Written(file, part)
    /\ Raise("write")
    /\ UNCHANGED <<board, engine, orphans, game_moves, result, legal_moves, prompt, attempt,
                   responses, move, path, calls, finished_board>>

Next ==
    \/ PopenUci
    \/ PopenUciFault
    \/ PopenUciAgain
    \/ PopenUciAgainFault
    \/ Configure
    \/ ConfigureFault
    \/ \E m \in LegalMoves(board) : EnginePlay(m)
    \/ EnginePlayFault
    \/ \E p \in 1..Len(Positions) : WhitePush(p)
    \/ GeminiCall
    \/ \E out \in SourceOutcomes : GeminiRound(out)
    \/ \E m \in FallbackChoices(board) : Fallback(m)
    \/ \E p \in 1..Len(Positions) : BlackPush(p)
    \/ GameOver
    \/ QuitFault
    \/ SaveGameData
    \/ SaveOpenFault
    \/ \E part \in WrittenBeforeFault(IF pc = "save" THEN finished_board[1] ELSE board) :
          SaveWriteFault(part)

Spec == Init /\ [][Next]_vars

\* the single thread goes on while it can: every external call returns
FairSpec == Spec /\ WF_vars(Next)

----------------------------------------------------------------------------
(* Properties *)

\* get_gemini_move is running, or has just returned to play_game
InCall == pc \in {"gemini", "black_push"}
Returned == pc = "black_push"

\* the text of round i parses, and to a legal move of the board
ParsesAt(i) == responses[i].kind = "text" /\ from_uci(Sanitize(responses[i].text)).ok
MoveAt(i) == from_uci(Sanitize(responses[i].text)).move
LegalAt(i) == ParsesAt(i) /\ IsLegal(board, MoveAt(i))

\* the feedback lines of the prompt, without its initial part
FeedbackLines == IF prompt = <<>> THEN <<>> ELSE Tail(prompt)
CountKind(k) == Cardinality({i \in 1..Len(FeedbackLines) : FeedbackLines[i].kind = k})

IsPrefix(s, t) == Len(s) <= Len(t) /\ SubSeq(t, 1, Len(s)) = s

\* what the first n rounds of this call have added to the prompt
RECURSIVE FeedbackUpTo(_)
FeedbackUpTo(n) ==
    IF n = 0 THEN <<>>
    ELSE FeedbackUpTo(n - 1)
         \o (IF LegalAt(n) THEN <<>> ELSE Feedback(board, responses[n]))

\* C1: whatever the source did in the rounds of a call, the move that
\* get_gemini_move returns is a legal move of the board it was called with,
\* on the validation path and on the fallback path
C1_Legality ==
    Returned => /\ path \in {"validated", "fallback"}
                /\ IsLegal(board, move)
                /\ ~is_game_over(board)

C1_Witness ==
    /\ Returned
    /\ path = "fallback"
    /\ IsLegal(board, move)
    /\ Len(board.move_stack) >= 3
    /\ \E i, j, k \in 1..Len(responses) :
          /\ responses[i].kind = "fault"
          /\ ParsesAt(j) /\ ~LegalAt(j)
          /\ responses[k].kind = "text" /\ ~ParsesAt(k)

\* C2: a call queries the source at most retries times, one query per round,
\* and every call that was entered returns
C2_Termination ==
    /\ [](InCall => /\ attempt <= retries
                    /\ Len(responses) = attempt)
    /\ [][pc = "gemini" /\ pc' = "gemini" => attempt' = attempt + 1]_vars
    /\ (pc = "gemini" ~> pc = "black_push")

C2_Witness ==
    /\ Returned
    /\ Len(responses) = retries
    /\ \A i \in 1..Len(responses) : responses[i].kind = "text" /\ ~ParsesAt(i)

\* C3: whenever control has left play_game, by return or by an exception,
\* every engine process that was started has been shut down
C3_EngineReleased ==
    pc \in {"raised", "save", "done"} => engine # "running" /\ orphans = 0

\* C4: a round whose sanitized text parses to a legal move is the last round
\* of its call: the call returns exactly that move, the source was called
\* exactly that many times, no feedback was added for the round, and the
\* fallback is not taken
C4_FirstSuccessWins ==
    InCall =>
        \A k \in 1..Len(responses) :
            LegalAt(k) => /\ k = Len(responses)
                          /\ Returned
                          /\ path = "validated"
                          /\ move = MoveAt(k)
                          /\ attempt = k
                          /\ FeedbackLines = FeedbackUpTo(k - 1)

C4_Witness ==
    /\ Returned
    /\ path = "validated"
    /\ Len(responses) = 2
    /\ LegalAt(2)
    /\ move = e8h8

\* the state part of C5: the prompt is the initial prompt and one line per
\* failed round, each line telling the failure of its round
C5_FeedbackInv ==
    InCall =>
        /\ prompt # <<>>
        /\ Head(prompt) = InitialPrompt(board)[1]
        /\ Len(FeedbackLines) = Cardinality({i \in 1..Len(responses) : ~LegalAt(i)})
        /\ \A i \in 1..Len(FeedbackLines) :
              /\ (ParsesAt(i) =>
                    FeedbackLines[i] = IllegalFeedback(Sanitize(responses[i].text)))
              /\ (responses[i].kind = "text" /\ ~ParsesAt(i) =>
                    FeedbackLines[i] = FormatFeedback)

\* C5: inside a call the prompt only grows by appending; every failed round
\* has added one line, and the line tells the failure of that round: the
\* illegal-move line with the token for a text that parsed, the format line
\* for a text that did not parse
C5_FeedbackMonotone ==
    /\ []C5_FeedbackInv
    /\ [][pc = "gemini" /\ pc' \in {"gemini", "black_push"} =>
            /\ IsPrefix(prompt, prompt')
            /\ Len(prompt') <= Len(prompt) + 1]_vars

Z9Z9 == TextOutcome(<<"z", "9", "z", "9">>)
AllZ9Z9 == Len(responses) = retries /\ \A i \in 1..Len(responses) : responses[i] = Z9Z9

\* C6: with z9z9 in every round the call returns a legal move by the
\* fallback, after exactly retries illegal-move lines and no format line
C6_AlwaysZ9Z9_Illegal ==
    InCall /\ AllZ9Z9 =>
        /\ CountKind("illegal") = retries
        /\ CountKind("format") = 0
        /\ Len(FeedbackLines) = retries
        /\ (Returned => path = "fallback" /\ move \in LegalMoves(board))

WrongCase == TextOutcome(<<BT, "E", "7", "E", "5", BT, NL>>)
RightCase == TextOutcome(<<"e", "7", "e", "5">>)

\* C7: Black to move with e7e5 legal; round 1 gives E7E5 in backticks with a
\* newline and round 2 gives e7e5: round 1 adds the one format line and the
\* call goes on, round 2 returns e7e5 after two source calls
C7_WrongCase ==
    InCall /\ e7e5 \in LegalMoves(board) /\ responses # <<>> /\ responses[1] = WrongCase =>
        /\ FeedbackLines # <<>>
        /\ FeedbackLines[1] = FormatFeedback
        /\ (Len(responses) = 1 => pc = "gemini" /\ FeedbackLines = <<FormatFeedback>>)
        /\ (Len(responses) >= 2 /\ responses[2] = RightCase =>
              /\ Returned
              /\ path = "validated"
              /\ move = e7e5
              /\ attempt = 2
              /\ Len(responses) = 2
              /\ FeedbackLines = <<FormatFeedback>>)

\* C8: a fault of the source in a round is taken inside the call: the round
\* counts, format feedback is added for it, the call goes on to the next
\* round or the fallback, and nothing is raised to play_game
C8_SourceFaultLocal ==
    /\ fault \notin {"SourceError", "InvalidMoveError"}
    /\ (responses # <<>> => InCall)
    /\ (InCall =>
          \A i \in 1..Len(responses) :
              responses[i].kind = "fault" =>
                  /\ i <= attempt
                  /\ Len(FeedbackUpTo(i)) <= Len(FeedbackLines)
                  /\ Len(FeedbackUpTo(i)) > Len(FeedbackUpTo(i - 1))
                  /\ \A j \in (Len(FeedbackUpTo(i - 1)) + 1)..Len(FeedbackUpTo(i)) :
                        FeedbackLines[j] = FormatFeedback
                  /\ (i = Len(responses) /\ Returned =>
                        path = "fallback" /\ attempt = retries))

C8_Witness ==
    /\ Returned
    /\ path = "validated"
    /\ Len(responses) = 3
    /\ responses[1].kind = "fault"
    /\ responses[2].kind = "fault"

\* C9: after engine.play has raised, no source is asked again, no move is
\* applied or logged, the engine has been shut down when the fault leaves
\* play_game, and the game is not archived
C9_EngineFaultFatal ==
    fault = "engine.play" =>
        /\ pc = "raised"
        /\ calls[Len(calls)] = "engine"
        /\ Len(game_moves) = Len(calls) - 1
        /\ Len(board.move_stack) = Len(calls) - 1
        /\ file \in PriorFiles
        /\ engine = "quit"
        /\ orphans = 0

\* C10: the game starts with White to move; the engine is asked for the odd
\* plies and get_gemini_move for the even ones, one source per ply, and each
\* ply applies one move and passes the turn
C10_TurnAlternation ==
    /\ (pc \in {"start", "start_again", "configure"} =>
          board = NewBoard /\ Turn(board) = WHITE)
    /\ \A i \in 1..Len(calls) : calls[i] = IF i % 2 = 1 THEN "engine" ELSE "gemini"
    /\ Len(game_moves) = Len(board.move_stack)
    /\ Len(calls) = Len(game_moves)
                    + (IF pc \in {"white_push", "gemini", "black_push"}
                          \/ fault \in {"engine.play", "SourceError", "InvalidMoveError"}
                       THEN 1 ELSE 0)
    /\ (Turn(board) = WHITE <=> Len(board.move_stack) % 2 = 0)
    /\ (pc = "white_push" => Turn(board) = WHITE)
    /\ (InCall => Turn(board) = BLACK)

C10_Witness ==
    /\ pc = "loop"
    /\ calls = <<"engine", "gemini", "engine", "gemini">>
    /\ Len(game_moves) = 4

\* the move that board.push(logged) leaves on the move stack: the move itself,
\* or the king's two-square move for castling written king-takes-rook
SameMove(logged, stacked) ==
    \/ stacked = logged
    \/ /\ logged.from_square \in {E1, E8}
       /\ logged.promotion = NONE /\ logged.drop = NONE
       /\ stacked = Move(logged.from_square,
                         IF logged.to_square = logged.from_square + 3
                         THEN logged.from_square + 2 ELSE logged.from_square - 2,
                         NONE, NONE)
       /\ logged.to_square \in {logged.from_square + 3, logged.from_square - 4}

\* game_moves and the move stack of the board hold the same moves, in order
LogAgrees ==
    /\ Len(game_moves) = Len(board.move_stack)
    /\ \A i \in 1..Len(game_moves) : SameMove(game_moves[i], board.move_stack[i])

AtBoundary == pc \in {"loop", "save", "done"}
PlayGameReturned == pc \in {"save", "done"} \/ fault \in {"open", "write"}

\* C11 as stated: at every loop boundary game_moves is the sequence of the
\* moves applied to the board, and play_game hands back the final board
\* together with that log
C11_LogHandedBack ==
    /\ (AtBoundary => LogAgrees)
    /\ (PlayGameReturned => finished_board = <<board, game_moves>>)

\* C11 as amended: at every loop boundary game_moves is the sequence of the
\* moves applied to the board, it only grows by appending the move just
\* applied, and play_game hands back the final board alone, whose move stack
\* holds the same moves with castling in the king's two-square form
C11_BoardLogAgreement ==
    /\ [](/\ (AtBoundary => LogAgrees)
          /\ (PlayGameReturned => finished_board = <<board>> /\ LogAgrees))
    /\ [][game_moves' # game_moves =>
            LET m == IF pc = "white_push" THEN result ELSE move
            IN  /\ pc \in {"white_push", "black_push"}
                /\ game_moves' = Append(game_moves, m)
                /\ board'.move_stack = Append(board.move_stack, FromChess960(board, m))]_vars

C11_Witness ==
    /\ pc = "save"
    /\ Len(game_moves) = 4
    /\ game_moves[2] = e8h8
    /\ board.move_stack[2] = e8g8
    /\ game_moves[4] = e7e5
    /\ finished_board = <<board>>

\* the state part of C12: in every round the board is the one the prompt was
\* built from, and what the call returns is a move of the list in the prompt
C12_SameBoard ==
    InCall =>
        /\ Head(prompt).fen = <<board.pos, Len(board.move_stack)>>
        /\ Head(prompt).legal = {Uci(m) : m \in Pos(board).legal}
        /\ legal_moves = Head(prompt).legal
        /\ board.move_stack = [i \in 1..Len(board.move_stack) |->
                                  FromChess960(board, game_moves[i])]
        /\ Len(board.move_stack) = Len(calls) - 1
        /\ (Returned => Uci(FromChess960(board, move)) \in Head(prompt).legal)

\* C12: get_gemini_move leaves the board as it is, in failed rounds, on
\* success and on the fallback: position, side to move and move history are
\* the same before and after, so every round is validated against the legal
\* moves that were listed in the initial prompt
C12_BoardUnchanged ==
    /\ []C12_SameBoard
    /\ [][pc = "gemini" \/ pc' = "gemini" => board' = board /\ game_moves' = game_moves]_vars

C12_Witness ==
    /\ Returned
    /\ path = "fallback"
    /\ Len(board.move_stack) = 3
    /\ Len(FeedbackLines) = retries
    /\ board.pos = 7

\* C13: with a board that ends every game within a bounded number of plies
\* and move sources that do not fail, play_game reaches a finished board and
\* returns it; a source is asked, and a move applied, only while the board is
\* not finished
C13_DirectorProgress ==
    /\ <>(\/ fault # "none"
          \/ /\ pc \in {"save", "done"}
             /\ is_game_over(board)
             /\ finished_board = <<board>>)
    /\ [](pc \in {"white_push", "gemini", "black_push"} => ~is_game_over(board))
    /\ [][is_game_over(board) =>
            board' = board /\ calls' = calls /\ game_moves' = game_moves]_vars

C13_Witness ==
    /\ pc = "save"
    /\ fault = "none"
    /\ is_game_over(board)
    /\ Len(board.move_stack) = 4
    /\ calls = <<"engine", "gemini", "engine", "gemini">>

\* C14: save_game_data only appends: whatever the file held stays, in order,
\* at its front; one call adds exactly one record followed by one blank-line
\* separator, so the record of a second game follows that of the first
C14_OneRecordAdded ==
    pc = "done" =>
        \E old \in PriorFiles :
            /\ file = old \o <<PgnRecord(board, Today), Separator>>
            /\ Len(file) = Len(old) + 2
            /\ file[Len(file) - 1].complete
            /\ file[Len(file) - 1].moves = board.move_stack

C14_AppendOnly ==
    /\ []C14_OneRecordAdded
    /\ [][/\ IsPrefix(file, file')
          /\ file' # file => pc = "save" /\ Len(file') <= Len(file) + 2]_vars

C14_Witness ==
    /\ pc = "done"
    /\ Len(file) = 4
    /\ file[1] = PgnRecord(EarlierBoard, Earlier)
    /\ file[2] = Separator
    /\ file[3] = PgnRecord(board, Today)
    /\ file[3].moves # file[1].moves
    /\ file[4] = Separator

\* C15: a fault while appending reaches the caller of the run and leaves the
\* dataset file holding the old content or the old content plus one complete
\* record: no position of the file holds a part of a record
C15_NoPartialRecord ==
    /\ fault \in {"open", "write"} =>
          /\ pc = "raised"
          /\ \E old \in PriorFiles :
                \/ file = old
                \/ file = old \o <<PgnRecord(board, Today)>>
                \/ file = old \o <<PgnRecord(board, Today), Separator>>
    /\ \A i \in 1..Len(file) : i % 2 = 1 => file[i].complete

\* the state part of C16: between calls nothing of a call is kept, and inside
\* a call the prompt is one initial part for the board of this turn followed
\* by the lines the rounds of this call have added
C16_ContextOfThisTurn ==
    /\ pc \in {"loop", "white_push", "save", "done"} =>
          prompt = <<>> /\ responses = <<>> /\ attempt = 0
    /\ InCall =>
          /\ Len(prompt) >= 1
          /\ prompt[1].kind = "initial"
          /\ prompt[1].fen = <<board.pos, Len(board.move_stack)>>
          /\ attempt = Len(responses)
          /\ (attempt = 0 => Len(prompt) = 1)
          /\ FeedbackLines = FeedbackUpTo(attempt)
          /\ \A i \in 2..Len(prompt) : prompt[i].kind \in {"illegal", "format"}

\* C16: every call of get_gemini_move starts with the initial prompt of the
\* board of this turn alone and with no round counted; no line of an earlier
\* turn is in the prompt of a later one
C16_FreshContext ==
    /\ []C16_ContextOfThisTurn
    /\ [][pc # "gemini" /\ pc' = "gemini" =>
            /\ Len(prompt') = 1
            /\ prompt'[1].kind = "initial"
            /\ prompt'[1].fen = <<board'.pos, Len(board'.move_stack)>>
            /\ prompt'[1].legal = {Uci(m) : m \in Pos(board').legal}
            /\ attempt' = 0
            /\ responses' = <<>>]_vars

\* a later turn begins after a turn that ended in the fallback (no text of the
\* source spells g8f6), that is after three feedback lines
C16_Witness ==
    /\ pc = "gemini"
    /\ attempt = 0
    /\ Len(game_moves) = 3
    /\ game_moves[2] = g8f6
    /\ Len(prompt) = 1
    /\ prompt[1].kind = "initial"
    /\ file # <<>>

\* C17: a call returns by the fallback exactly when all retries rounds failed
\* (an illegal token, a text that does not parse or a fault of the source,
\* each of them); then the source was called retries times and the call
\* returns a legal move and raises nothing
C17_FallbackIffExhausted ==
    /\ Returned =>
          /\ path = "fallback" <=>
                /\ Len(responses) = retries
                /\ \A i \in 1..retries : ~LegalAt(i)
          /\ path = "fallback" =>
                /\ attempt = retries
                /\ fault = "none"
                /\ move \in LegalMoves(board)
          /\ path \in {"fallback", "validated"}
    /\ pc = "gemini" /\ attempt = retries =>
          /\ fault = "none"
          /\ \A i \in 1..retries : ~LegalAt(i)
          /\ FallbackChoices(board) # {}

C17_Witness ==
    /\ Returned
    /\ path = "fallback"
    /\ Len(responses) = retries
    /\ responses[1].kind = "fault"
    /\ ParsesAt(2)
    /\ responses[3].kind = "text"
    /\ ~ParsesAt(3)
    /\ move = e2e1q

\* the text with its surrounding white space, every white-space character
\* inside it (space, newline, tab) and every backtick taken out
WithoutWhitespaceAndBackticks(text) ==
    SelectSeq(text, LAMBDA c : c \notin {SP, NL, TAB} /\ c # BT)

\* C18: a round whose text spells a legal move once white space (spaces,
\* newlines, tabs) and backticks are taken out is accepted: it is the last
\* round of the call, the call returns that move and no line is added to the
\* prompt for it; the letters keep their case
C18_SanitizedAccepted ==
    InCall =>
        \A i \in 1..Len(responses) :
            LET clean == WithoutWhitespaceAndBackticks(responses[i].text)
            IN  (/\ responses[i].kind = "text"
                 /\ from_uci(clean).ok
                 /\ IsLegal(board, from_uci(clean).move))
                => /\ i = Len(responses)
                   /\ Returned
                   /\ path = "validated"
                   /\ move = from_uci(clean).move
                   /\ FeedbackLines = FeedbackUpTo(i - 1)

\* the state part of C19: while a move of a source is awaited or about to be
\* pushed, and when a source has raised, the board is not finished and has a
\* legal move; the fallback has a move to choose from
C19_LiveBoard ==
    /\ (\/ pc \in {"white_push", "gemini", "black_push"}
        \/ fault \in {"engine.play", "SourceError", "InvalidMoveError"})
       => /\ ~is_game_over(board)
          /\ LegalMoves(board) # {}
    /\ pc = "gemini" => legal_moves # {} /\ FallbackChoices(board) # {}

\* C19: engine.play and get_gemini_move are called only on a board that is
\* not finished and has at least one legal move, so the fallback of
\* get_gemini_move never chooses from an empty set
C19_SourceOnLiveBoard ==
    /\ []C19_LiveBoard
    /\ [][calls' # calls =>
            /\ ~is_game_over(board)
            /\ LegalMoves(board) # {}
            /\ board' = board]_vars

\* a call that reached the fallback on a board with a single legal move
C19_Witness ==
    /\ pc = "black_push"
    /\ path = "fallback"
    /\ Cardinality(LegalMoves(board)) = 1
    /\ move \in LegalMoves(board)
    /\ Len(calls) = 4

\* the state part of C20: the file differs from what it held before the run
\* only once play_game has returned a finished board with every engine
\* process it started shut down;
\* while the game goes on, and after a fault that ended it, the file is as it
\* was; a finished run has added the one record of its game
C20_ArchivedOnlyWhenFinished ==
    /\ file \notin PriorFiles =>
          /\ pc = "done" \/ fault = "write"
          /\ is_game_over(board)
          /\ engine = "quit"
          /\ orphans = 0
          /\ finished_board = <<board>>
    /\ (\/ pc \in {"start", "start_again", "configure", "loop", "white_push",
                   "gemini", "black_push"}
        \/ fault \in {"popen_uci", "configure", "engine.play", "engine.quit"})
       => file \in PriorFiles /\ finished_board = <<>>
    /\ pc = "done" =>
          /\ file \notin PriorFiles
          /\ Cardinality({i \in 1..Len(file) :
                             i % 2 = 1 /\ file[i].date = Today}) = 1
          /\ file[Len(file) - 1].moves = finished_board[1].move_stack

\* C20: the dataset file is written only after play_game returned a finished
\* board with the engine shut down (no engine process of the game is left
\* running), and at most once in a run: a game in
\* progress or ended by a fault is not archived, a completed one is archived
\* exactly once
C20_ArchiveAfterGame ==
    /\ []C20_ArchivedOnlyWhenFinished
    /\ [][file' # file =>
            /\ pc = "save"
            /\ file \in PriorFiles
            /\ is_game_over(board)
            /\ engine = "quit"
            /\ orphans = 0
            /\ board' = board]_vars

====
